---- MODULE Spec2Model ----
(***************************************************************************)
(* The sync engine of icloud-photos-sync: SyncEngine.sync() with its retry *)
(* loop, the three phases of one attempt (fetch & load, diff, write), the  *)
(* bounded download pool and the local library on disk.                    *)
(*                                                                         *)
(* One step of the model is one stretch of sync() between two suspension   *)
(* points (await), or one step of a download job of the pool.              *)
(***************************************************************************)
EXTENDS Integers, Sequences, FiniteSets, TLC

(***************************************************************************)
(* Bounds of the model.                                                    *)
(***************************************************************************)
\* Largest value of the option maxRetries that is explored (-1 is always explored).
MaxRetries == 2
\* Largest value of the option downloadThreads that is explored.
MaxThreads == 2
\* Number of asset UUIDs.
NumAssets == 2
\* Number of album UUIDs.
NumAlbums == 1
\* Longest remote list handed to the differ on its own.
MaxRemote == 3
\* Number of calls of the differ with the same local map.
MaxCalls == 2
\* Most entries of a directory whose album type is read on its own.
MaxEntries == 3
\* Number of asset UUIDs and of album UUIDs of the library with its album hierarchy.
NumLibAssets == 1
NumLibAlbums == 2
\* Number of calls of sync() in a row on that library.
MaxRuns == 2

AssetIds == 1..NumAssets
AlbumIds == 1..NumAlbums

(***************************************************************************)
(* Entities.  An entity is a UUID with an equality fingerprint; "none"     *)
(* stands for "no entity with this UUID".  The remote library holds the    *)
(* current fingerprint "v2" of an entity; the local library may hold the   *)
(* same one or a stale one, "v1".                                          *)
(***************************************************************************)
None == "none"
Fingerprints == {"v1", "v2"}
RemoteFingerprints == {"v2"}

\* PEntity.equal: the remote entity against the local entity of the same UUID.
Equal(remoteEntity, localFp) == remoteEntity.fp = localFp

\* The entities of a library (a map UUID -> fingerprint or None), by UUID.
RECURSIVE EntitiesFrom(_, _, _)
EntitiesFrom(lib, i, n) ==
    IF i > n THEN <<>>
    ELSE (IF lib[i] = None THEN <<>> ELSE <<[uuid |-> i, fp |-> lib[i]]>>)
         \o EntitiesFrom(lib, i + 1, n)

\* Object.values(localEntities)
Values(lib, n) == EntitiesFrom(lib, 1, n)

\* The condition of the loop without its test for equality.
NotMatchingIgnoresChange(remoteEntity, localEntity) == localEntity = None

\* if (!localEntity || !remoteEntity.equal(localEntity))
NotMatching(remoteEntity, localEntity) ==
    localEntity = None \/ ~Equal(remoteEntity, localEntity)

\* The forEach loop of getProcessingQueues: the local map loses every kept entity.
RECURSIVE DiffLoop(_, _, _)
DiffLoop(remoteEntities, localEntities, toBeAdded) ==
    IF remoteEntities = <<>>
    THEN [localEntities |-> localEntities, toBeAdded |-> toBeAdded]
    ELSE LET remoteEntity == Head(remoteEntities)
             localEntity == localEntities[remoteEntity.uuid]
         IN  IF NotMatching(remoteEntity, localEntity)
             THEN DiffLoop(Tail(remoteEntities), localEntities,
                           Append(toBeAdded, remoteEntity))
             ELSE DiffLoop(Tail(remoteEntities),
                           [localEntities EXCEPT ![remoteEntity.uuid] = None],
                           toBeAdded)

\* getProcessingQueues: [toBeDeleted, toBeAdded], and the local map as the call leaves it.
GetProcessingQueues(remoteEntities, localEntities, n) ==
    LET res == DiffLoop(remoteEntities, localEntities, <<>>)
    IN  [toBeDeleted |-> Values(res.localEntities, n),
         toBeAdded |-> res.toBeAdded,
         localEntities |-> res.localEntities]

EmptyQueue == [toBeDeleted |-> <<>>, toBeAdded |-> <<>>]

(***************************************************************************)
(* Errors.  An error is known to sync() by its code alone.                 *)
(***************************************************************************)
\* Codes of errors thrown by the remote transport (axios, DNS).
TransportCodes == {"ERR_BAD_RESPONSE", "ERR_BAD_REQUEST", "EAI_AGAIN", "ECONNRESET"}
\* Codes of errors thrown by the filesystem.
FsCodes == {"EACCES"}
\* An error without a code property.
NoCode == "undefined"
ErrCodes == TransportCodes \cup FsCodes \cup {NoCode}

NoError == "no error"

\* What sync() has ended with: nothing yet, a return, or a thrown error.
Running == [kind |-> "running", message |-> "", cause |-> NoError]
Returned == [kind |-> "returned", message |-> "", cause |-> NoError]
\* new iCPSError(SYNC_ERR.MAX_RETRY).addMessage(`${retryCount}`)
MaxRetryError(count) == [kind |-> "MAX_RETRY", message |-> ToString(count), cause |-> NoError]
\* new iCPSError(SYNC_ERR.UNKNOWN_SYNC).addCause(err)
UnknownSyncError(err) == [kind |-> "UNKNOWN_SYNC", message |-> "", cause |-> err]
\* An error that leaves sync() as it was thrown, through no catch block.
Escaped(err, where) == [kind |-> "ESCAPED", message |-> where, cause |-> err]

VARIABLES
    options,        \* app.options: maxRetries and downloadThreads
    maxRetry,       \* SyncEngine.maxRetry
    downloadCCY,    \* SyncEngine.downloadCCY
    remoteAssets,   \* the remote library: asset UUID -> fingerprint or None
    remoteAlbums,   \* the remote library: album UUID -> fingerprint or None
    assetDir,       \* the asset pool on disk: asset UUID -> fingerprint or None
    albumTree,      \* the album tree on disk: album UUID -> fingerprint or None
    pc,             \* where sync() stands
    retryCount,     \* the local retryCount of sync()
    fetched,        \* what fetchAndLoadState returned in this attempt
    assetQueue,     \* the asset queue of this attempt
    albumQueue,     \* the album queue of this attempt
    toDelete,       \* asset deletions of this attempt not yet executed
    settled,        \* UUIDs of the download jobs of this attempt that resolved
    albumOps,       \* album operations of this attempt not yet executed
    queued,         \* downloadQueue: jobs waiting (downloadQueue.size of them)
    inflight,       \* downloadQueue: jobs running (downloadQueue.pending of them)
    lastErr,        \* the err of the catch block of sync(), until the next attempt starts
    result,         \* what sync() ended with
    events,         \* the events emitted, in order
    differRemote,   \* the differ on its own: the remote list of its calls
    differLocal,    \* the differ on its own: the local map object of its calls
    differCalls,    \* the differ on its own: its calls so far, arguments and result
    pathEntries,    \* readAlbumTypeFromPath on its own: the entries of the directory
    typePc,         \* readAlbumTypeFromPath on its own: where the call stands
    directoryPresent, \* readAlbumTypeFromPath on its own: its local directoryPresent
    albumType,      \* readAlbumTypeFromPath on its own: what the call returned
    libRemote,      \* the library with its hierarchy: the remote assets and albums
    libDisk,        \* the library with its hierarchy: the asset pool and the album tree
    libPc,          \* the library with its hierarchy: where sync() stands
    libRunNo,       \* the library with its hierarchy: which call of sync() this is
    libFetched,     \* the library with its hierarchy: what fetchAndLoadState returned
    libQueues,      \* the library with its hierarchy: the asset queue and the album queue
    libOps,         \* the library with its hierarchy: album operations not yet executed
    libResult,      \* the library with its hierarchy: what this call of sync() ended with
    libMutations    \* the library with its hierarchy: filesystem mutations of this call

vars == <<options, maxRetry, downloadCCY, remoteAssets, remoteAlbums, assetDir, albumTree, pc,
          retryCount, fetched, assetQueue, albumQueue, toDelete, settled, albumOps,
          queued, inflight, lastErr, result, events,
          differRemote, differLocal, differCalls,
          pathEntries, typePc, directoryPresent, albumType,
          libRemote, libDisk, libPc, libRunNo, libFetched, libQueues, libOps, libResult,
          libMutations>>

\* The variables of the differ on its own; sync() leaves them alone.
differ == <<differRemote, differLocal, differCalls>>
DifferUnused ==
    /\ differRemote = <<>>
    /\ differLocal = [i \in AssetIds |-> None]
    /\ differCalls = <<>>

\* The variables of readAlbumTypeFromPath on its own; sync() leaves them alone.
reader == <<pathEntries, typePc, directoryPresent, albumType>>
ReaderUnused ==
    /\ pathEntries = <<>>
    /\ typePc = "unused"
    /\ directoryPresent = FALSE
    /\ albumType = None

\* The variables of the library with its hierarchy; the other specifications leave
\* them alone.
library == <<libRemote, libDisk, libPc, libRunNo, libFetched, libQueues, libOps, libResult,
             libMutations>>
LibraryUnused ==
    /\ libRemote = <<>>
    /\ libDisk = <<>>
    /\ libPc = "unused"
    /\ libRunNo = 0
    /\ libFetched = <<>>
    /\ libQueues = <<>>
    /\ libOps = <<>>
    /\ libResult = Running
    /\ libMutations = 0

config == <<options, maxRetry, downloadCCY, remoteAssets, remoteAlbums, differ, reader,
            library>>
disk == <<assetDir, albumTree>>
pool == <<queued, inflight>>
attempt == <<fetched, assetQueue, albumQueue, toDelete, settled, albumOps>>

NoFetch == [remoteAssets |-> <<>>, remoteAlbums |-> <<>>,
            localAssets |-> [i \in AssetIds |-> None],
            localAlbums |-> [i \in AlbumIds |-> None]]

(***************************************************************************)
(* The constructor.                                                        *)
(***************************************************************************)
\* this.downloadCCY = app.options.downloadThreads
ConstructorDownloadCCY(downloadThreads) == downloadThreads
\* this.maxRetry = app.options.maxRetries
ConstructorMaxRetry(maxRetries) == maxRetries

Init ==
    /\ options \in [maxRetries : -1..MaxRetries, downloadThreads : 1..MaxThreads]
    /\ maxRetry = ConstructorMaxRetry(options.maxRetries)
    /\ downloadCCY = ConstructorDownloadCCY(options.downloadThreads)
    /\ remoteAssets \in [AssetIds -> RemoteFingerprints \cup {None}]
    /\ remoteAlbums \in [AlbumIds -> RemoteFingerprints \cup {None}]
    /\ assetDir \in [AssetIds -> Fingerprints \cup {None}]
    /\ albumTree \in [AlbumIds -> Fingerprints \cup {None}]
    /\ pc = "idle"
    /\ retryCount = 0
    /\ fetched = NoFetch
    /\ assetQueue = EmptyQueue
    /\ albumQueue = EmptyQueue
    /\ toDelete = <<>>
    /\ settled = {}
    /\ albumOps = <<>>
    /\ queued = <<>>
    /\ inflight = {}
    /\ lastErr = NoError
    /\ result = Running
    /\ events = <<>>
    /\ DifferUnused
    /\ ReaderUnused
    /\ LibraryUnused

(***************************************************************************)
(* sync(): the retry loop.                                                 *)
(***************************************************************************)
Emit(log, evs) == log \o evs

\* The loop guard with the attempt about to start counted as made.
LoopGuardOffByOne(max, count) == max > count + 1

\* The loop guard with one attempt too many.
LoopGuardInclusive(max, count) == max >= count

\* while (this.maxRetry > retryCount)
LoopGuard(max, count) == max > count

\* The head of the loop, reached from the start of sync() and from the end of the
\* catch block: either the next attempt starts (fetchAndLoadState emits its event
\* and suspends on the remote fetch) or the loop is left and MAX_RETRY is thrown.
LoopHead(log, count) ==
    IF LoopGuard(maxRetry, count)
    THEN /\ retryCount' = count + 1
         /\ events' = Emit(log, <<"FETCH_N_LOAD">>)
         /\ pc' = "fetch"
         /\ result' = result
         /\ lastErr' = NoError
    ELSE /\ retryCount' = count
         /\ events' = log
         /\ pc' = "thrown"
         /\ result' = MaxRetryError(count)
         /\ lastErr' = lastErr

\* sync() is called: START, retryCount = 0, and the head of the loop.
SyncStart ==
    /\ pc = "idle"
    /\ LoopHead(Emit(events, <<"START">>), 0)
    /\ UNCHANGED <<config, disk, pool, attempt>>

(***************************************************************************)
(* The catch block of sync(): checkFatalError and prepareRetry.  It runs   *)
(* in the turn of the event loop in which the write phase threw.           *)
(***************************************************************************)
\* checkFatalError without its branch for EAI_AGAIN.
CheckFatalErrorNoDns(e) == e \notin {"ERR_BAD_RESPONSE", "ERR_BAD_REQUEST"}

\* checkFatalError: TRUE when it throws, FALSE when it returns.
CheckFatalError(e) == e \notin {"ERR_BAD_RESPONSE", "ERR_BAD_REQUEST", "EAI_AGAIN"}

\* prepareRetry: if (this.downloadQueue.size > 0) this.downloadQueue.clear()
ClearIfWaiting(waiting) == IF Len(waiting) > 0 THEN <<>> ELSE waiting

\* prepareRetry that does not wait for the running jobs.
NeverAwaitsIdle(pending) == FALSE

\* prepareRetry: if (this.downloadQueue.pending > 0) await this.downloadQueue.onIdle()
AwaitsIdle(pending) == pending > 0

\* downloadQueue.pending of the queue of this attempt, for the jobs running
PendingOf(running) == Cardinality({job \in running : job.queue = retryCount})

\* The write phase threw e, with these jobs waiting and running.  A fatal error
\* is thrown on as UNKNOWN_SYNC; otherwise RETRY is emitted and prepareRetry runs
\* up to its first suspension point.
Catch(e, waiting, running) ==
    /\ lastErr' = e
    /\ IF CheckFatalError(e)
       THEN /\ result' = UnknownSyncError(e)
            /\ pc' = "thrown"
            /\ events' = events
            /\ queued' = waiting
       ELSE /\ events' = Emit(events, <<"RETRY">>)
            /\ queued' = ClearIfWaiting(waiting)
            /\ pc' = IF AwaitsIdle(PendingOf(running)) THEN "retry_settle"
                     ELSE "retry_refresh"
            /\ result' = result

\* downloadQueue.onIdle() resolves: nothing waits, nothing runs.
QueueSettled ==
    /\ pc = "retry_settle"
    /\ queued = <<>>
    /\ PendingOf(inflight) = 0
    /\ pc' = "retry_refresh"
    /\ UNCHANGED <<config, disk, pool, attempt, retryCount, lastErr, result, events>>

\* The iCloud connection is ready again: prepareRetry returns, the loop goes on.
RefreshDone ==
    /\ pc = "retry_refresh"
    /\ LoopHead(events, retryCount)
    /\ UNCHANGED <<config, disk, pool, attempt>>

\* The iCloud connection does not get ready: the promise of getReady() rejects,
\* prepareRetry throws inside the catch block, and the error leaves sync() as it is.
RefreshThrows ==
    /\ pc = "retry_refresh"
    /\ result' = Escaped(NoCode, "prepareRetry")
    /\ pc' = "thrown"
    /\ UNCHANGED <<config, disk, pool, attempt, retryCount, lastErr, events>>

(***************************************************************************)
(* Phase 1: fetchAndLoadState.                                             *)
(***************************************************************************)
\* The four lists are there; diffState starts with its event.
FetchAndLoadState ==
    /\ pc = "fetch"
    /\ fetched' = [remoteAssets |-> Values(remoteAssets, NumAssets),
                   remoteAlbums |-> Values(remoteAlbums, NumAlbums),
                   localAssets |-> assetDir,
                   localAlbums |-> albumTree]
    /\ events' = Emit(events, <<"FETCH_N_LOAD_COMPLETED", "DIFF">>)
    /\ pc' = "diff"
    /\ UNCHANGED <<config, disk, pool, retryCount, assetQueue, albumQueue, toDelete,
                   settled, albumOps, lastErr, result>>

\* sync() with fetchAndLoadState inside its try block.
FetchAndLoadStateThrowsCaught ==
    /\ pc = "fetch"
    /\ \E code \in TransportCodes : Catch(code, queued, inflight)
    /\ UNCHANGED <<config, disk, inflight, attempt, retryCount>>

\* A remote fetch throws: the call is outside the try block of sync(), the error
\* leaves sync() as it is.
FetchAndLoadStateThrows ==
    /\ pc = "fetch"
    /\ \E code \in TransportCodes : result' = Escaped(code, "fetchAndLoadState")
    /\ pc' = "thrown"
    /\ UNCHANGED <<config, disk, pool, attempt, retryCount, lastErr, events>>

(***************************************************************************)
(* Phase 2: diffState.                                                     *)
(***************************************************************************)
\* resolveHierarchicalDependencies: the albums of this model have no parent, so
\* no operation of the queue depends on another and the queue stays as it is.
ResolveHierarchicalDependencies(queue, localAlbums) == queue

\* Both queues are there; writeState starts with its events and writeAssets starts.
DiffState ==
    /\ pc = "diff"
    /\ LET assets == GetProcessingQueues(fetched.remoteAssets, fetched.localAssets, NumAssets)
           albums == GetProcessingQueues(fetched.remoteAlbums, fetched.localAlbums, NumAlbums)
       IN  /\ assetQueue' = [toBeDeleted |-> assets.toBeDeleted,
                             toBeAdded |-> assets.toBeAdded]
           /\ albumQueue' = ResolveHierarchicalDependencies(
                                [toBeDeleted |-> albums.toBeDeleted,
                                 toBeAdded |-> albums.toBeAdded],
                                albums.localEntities)
           /\ fetched' = [fetched EXCEPT !.localAssets = assets.localEntities,
                                         !.localAlbums = albums.localEntities]
           /\ toDelete' = assets.toBeDeleted
    /\ events' = Emit(events, <<"DIFF_COMPLETED", "WRITE", "WRITE_ASSETS">>)
    /\ pc' = "write_assets"
    /\ UNCHANGED <<config, disk, pool, retryCount, settled, albumOps, lastErr, result>>

\* The dependency resolver reports a hierarchy it cannot resolve by throwing: the
\* call is outside the try block of sync().
DiffStateThrows ==
    /\ pc = "diff"
    /\ result' = Escaped(NoCode, "diffState")
    /\ pc' = "thrown"
    /\ UNCHANGED <<config, disk, pool, attempt, retryCount, lastErr, events>>

(***************************************************************************)
(* Phase 3: writeState.  writeAssets first: the deletions one by one, then *)
(* every addition handed to the download queue.                            *)
(***************************************************************************)
\* One asset is deleted from the asset pool.
DeleteAsset ==
    /\ pc = "write_assets"
    /\ toDelete # <<>>
    /\ assetDir' = [assetDir EXCEPT ![Head(toDelete).uuid] = None]
    /\ toDelete' = Tail(toDelete)
    /\ UNCHANGED <<config, albumTree, pool, pc, retryCount, fetched, assetQueue, albumQueue,
                   settled, albumOps, lastErr, result, events>>

\* The deletion of an asset throws: writeState throws into the try block of sync().
DeleteAssetThrows ==
    /\ pc = "write_assets"
    /\ toDelete # <<>>
    /\ \E code \in FsCodes : Catch(code, queued, inflight)
    /\ UNCHANGED <<config, disk, inflight, attempt, retryCount>>

\* writeAssets handing the additions to the queue while deletions are still to do.
SubmitDownloadsAtOnce ==
    /\ pc = "write_assets"
    /\ queued' = assetQueue.toBeAdded
    /\ settled' = {}
    /\ pc' = "write_assets_add"
    /\ UNCHANGED <<config, disk, inflight, retryCount, fetched, assetQueue, albumQueue,
                   toDelete, albumOps, lastErr, result, events>>

\* All deletions are done: a fresh download queue takes one job per asset to add.
SubmitDownloads ==
    /\ pc = "write_assets"
    /\ toDelete = <<>>
    /\ queued' = assetQueue.toBeAdded
    /\ settled' = {}
    /\ pc' = "write_assets_add"
    /\ UNCHANGED <<config, disk, inflight, retryCount, fetched, assetQueue, albumQueue,
                   toDelete, albumOps, lastErr, result, events>>

(***************************************************************************)
(* The download queue (PQueue with concurrency downloadCCY).  writeAssets  *)
(* makes a new queue in every attempt; a running job belongs to the queue  *)
(* of the attempt that started it, and a queue counts its own jobs only.   *)
(* The jobs run on their own: what happens to sync() does not stop them.   *)
(***************************************************************************)
\* The job the queue starts next, when fewer than its concurrency are running.
CanStart(waiting, running) == waiting # <<>> /\ PendingOf(running) < downloadCCY
Job(asset) == [asset |-> asset, queue |-> retryCount]

\* The queue starts its next job.
StartDownload ==
    /\ CanStart(queued, inflight)
    /\ inflight' = inflight \cup {Job(Head(queued))}
    /\ queued' = Tail(queued)
    /\ UNCHANGED <<config, disk, attempt, pc, retryCount, lastErr, result, events>>

\* addAsset of a running job: the bytes are downloaded and committed to the pool.
DownloadDone ==
    \E job \in inflight :
        /\ assetDir' = [assetDir EXCEPT ![job.asset.uuid] = job.asset.fp]
        /\ inflight' = inflight \ {job}
        /\ settled' = IF job.queue = retryCount THEN settled \cup {job.asset.uuid}
                      ELSE settled
        /\ UNCHANGED <<config, albumTree, queued, pc, retryCount, fetched, assetQueue,
                       albumQueue, toDelete, albumOps, lastErr, result, events>>

\* A running job throws while writeAssets is awaited: writeState throws into the
\* try block of sync().  The queue, done with the job, may have started its next
\* job by the time the catch block runs.
DownloadThrows ==
    \E job \in inflight, code \in TransportCodes, startsNext \in BOOLEAN :
        /\ pc = "write_assets_add"
        /\ job.queue = retryCount
        /\ LET running == inflight \ {job}
               starts == startsNext /\ CanStart(queued, running)
               waiting == IF starts THEN Tail(queued) ELSE queued
               runningThen == IF starts THEN running \cup {Job(Head(queued))} ELSE running
           IN  /\ startsNext => starts
               /\ inflight' = runningThen
               /\ Catch(code, waiting, runningThen)
        /\ UNCHANGED <<config, disk, attempt, retryCount>>

\* A running job throws when writeAssets is awaited no more (another job threw
\* before it, or sync() has ended): what it throws is dropped.
DownloadThrowsUnheard ==
    \E job \in inflight :
        /\ ~(pc = "write_assets_add" /\ job.queue = retryCount)
        /\ inflight' = inflight \ {job}
        /\ UNCHANGED <<config, disk, attempt, queued, pc, retryCount, lastErr, result,
                       events>>

\* The album operations writeAlbums executes: the deletions in order, then the additions.
RECURSIVE Tagged(_, _)
Tagged(op, albums) ==
    IF albums = <<>> THEN <<>>
    ELSE <<[op |-> op, album |-> Head(albums)]>> \o Tagged(op, Tail(albums))

AlbumOperations(queue) == Tagged("remove", queue.toBeDeleted) \o Tagged("add", queue.toBeAdded)

\* await this.writeAssets(assetQueue) is over: every job of this attempt has resolved.
WriteAssetsResolved ==
    /\ pc = "write_assets_add"
    /\ settled = {assetQueue.toBeAdded[i].uuid : i \in 1..Len(assetQueue.toBeAdded)}

\* writeState that does not await writeAssets.
AssetsWrittenNotAwaited ==
    /\ pc = "write_assets_add"
    /\ events' = Emit(events, <<"WRITE_ASSETS_COMPLETED", "WRITE_ALBUMS">>)
    /\ albumOps' = AlbumOperations(albumQueue)
    /\ pc' = "write_albums"
    /\ UNCHANGED <<config, disk, pool, retryCount, fetched, assetQueue, albumQueue,
                   toDelete, settled, lastErr, result>>

\* writeState goes on from the assets to the albums.
AssetsWritten ==
    /\ WriteAssetsResolved
    /\ events' = Emit(events, <<"WRITE_ASSETS_COMPLETED", "WRITE_ALBUMS">>)
    /\ albumOps' = AlbumOperations(albumQueue)
    /\ pc' = "write_albums"
    /\ UNCHANGED <<config, disk, pool, retryCount, fetched, assetQueue, albumQueue,
                   toDelete, settled, lastErr, result>>

\* removeAlbum or addAlbum, as the next operation says.
AlbumOp ==
    /\ pc = "write_albums"
    /\ albumOps # <<>>
    /\ LET next == Head(albumOps)
       IN  albumTree' = [albumTree EXCEPT ![next.album.uuid] =
                            IF next.op = "remove" THEN None ELSE next.album.fp]
    /\ albumOps' = Tail(albumOps)
    /\ UNCHANGED <<config, assetDir, pool, pc, retryCount, fetched, assetQueue, albumQueue,
                   toDelete, settled, lastErr, result, events>>

\* An album operation throws: writeState throws into the try block of sync().
AlbumOpThrows ==
    /\ pc = "write_albums"
    /\ albumOps # <<>>
    /\ \E code \in FsCodes : Catch(code, queued, inflight)
    /\ UNCHANGED <<config, disk, inflight, attempt, retryCount>>

\* sync() that emits DONE and, without a return, goes on with the loop.
WriteCompletedNoReturn ==
    /\ pc = "write_albums"
    /\ albumOps = <<>>
    /\ LoopHead(Emit(events, <<"WRITE_ALBUMS_COMPLETED", "WRITE_COMPLETED", "DONE">>),
                retryCount)
    /\ UNCHANGED <<config, disk, pool, attempt>>

\* writeState returns, sync() emits DONE and returns.
WriteCompleted ==
    /\ pc = "write_albums"
    /\ albumOps = <<>>
    /\ events' = Emit(events, <<"WRITE_ALBUMS_COMPLETED", "WRITE_COMPLETED", "DONE">>)
    /\ result' = Returned
    /\ pc' = "done"
    /\ UNCHANGED <<config, disk, pool, attempt, retryCount, lastErr>>

Next ==
    \/ SyncStart
    \/ FetchAndLoadState
    \/ FetchAndLoadStateThrows
    \/ DiffState
    \/ DiffStateThrows
    \/ DeleteAsset
    \/ DeleteAssetThrows
    \/ SubmitDownloads
    \/ StartDownload
    \/ DownloadDone
    \/ DownloadThrows
    \/ DownloadThrowsUnheard
    \/ AssetsWritten
    \/ AlbumOp
    \/ AlbumOpThrows
    \/ WriteCompleted
    \/ QueueSettled
    \/ RefreshDone
    \/ RefreshThrows

Spec == Init /\ [][Next]_vars

(***************************************************************************)
(* The differ on its own: getProcessingQueues called with a remote list    *)
(* and a local map, and called again with the same list and the same map   *)
(* object.  sync() is not running.                                         *)
(***************************************************************************)
sync == <<options, maxRetry, downloadCCY, remoteAssets, remoteAlbums, assetDir, albumTree, pc,
          retryCount, fetched, assetQueue, albumQueue, toDelete, settled, albumOps,
          queued, inflight, lastErr, result, events>>

\* sync() has not been called, on an empty library.
SyncUnused ==
    /\ options = [maxRetries |-> 0, downloadThreads |-> 1]
    /\ maxRetry = ConstructorMaxRetry(options.maxRetries)
    /\ downloadCCY = ConstructorDownloadCCY(options.downloadThreads)
    /\ remoteAssets = [i \in AssetIds |-> None]
    /\ remoteAlbums = [i \in AlbumIds |-> None]
    /\ assetDir = [i \in AssetIds |-> None]
    /\ albumTree = [i \in AlbumIds |-> None]
    /\ pc = "idle"
    /\ retryCount = 0
    /\ fetched = NoFetch
    /\ assetQueue = EmptyQueue
    /\ albumQueue = EmptyQueue
    /\ toDelete = <<>>
    /\ settled = {}
    /\ albumOps = <<>>
    /\ queued = <<>>
    /\ inflight = {}
    /\ lastErr = NoError
    /\ result = Running
    /\ events = <<>>

Entities == [uuid : AssetIds, fp : Fingerprints]

\* The lists of at most n entities.
RECURSIVE ListsUpTo(_)
ListsUpTo(n) ==
    IF n = 0 THEN {<<>>}
    ELSE LET shorter == ListsUpTo(n - 1)
         IN  shorter \cup {Append(list, e) : list \in shorter, e \in Entities}

DifferInit ==
    /\ SyncUnused
    /\ ReaderUnused
    /\ LibraryUnused
    /\ differRemote \in ListsUpTo(MaxRemote)
    /\ differLocal \in [AssetIds -> Fingerprints \cup {None}]
    /\ differCalls = <<>>

\* The array getProcessingQueues returns.
ReturnedQueues(res) == [toBeDeleted |-> res.toBeDeleted, toBeAdded |-> res.toBeAdded]

\* One call of getProcessingQueues(differRemote, differLocal).
DifferCall ==
    /\ Len(differCalls) < MaxCalls
    /\ LET res == GetProcessingQueues(differRemote, differLocal, NumAssets)
       IN  /\ differCalls' = Append(differCalls,
                                     [remoteEntities |-> differRemote,
                                      localEntities |-> differLocal,
                                      queues |-> ReturnedQueues(res)])
           /\ differLocal' = res.localEntities
    /\ UNCHANGED <<sync, reader, library, differRemote>>

DifferNext == DifferCall

DifferSpec == DifferInit /\ [][DifferNext]_vars

(***************************************************************************)
(* Vocabulary of the properties.                                           *)
(***************************************************************************)
Count(log, ev) == Len(SelectSeq(log, LAMBDA e : e = ev))

\* The attempts started and the attempts that ended in a retry.
NumAttempts == Count(events, "FETCH_N_LOAD")
NumRetry == Count(events, "RETRY")

\* The error codes the specification calls recoverable.
RecoverableCodes == {"ERR_BAD_RESPONSE", "ERR_BAD_REQUEST", "EAI_AGAIN"}

\* The state of the state machine of one sync() call.
Phase ==
    CASE pc = "idle" -> "Idle"
      [] pc = "fetch" -> "Fetching"
      [] pc = "diff" -> "Diffing"
      [] pc \in {"write_assets", "write_assets_add", "write_albums"} -> "Writing"
      [] pc \in {"retry_settle", "retry_refresh"} -> "Retrying"
      [] pc = "done" -> "Done"
      [] pc = "thrown" -> "FatalError"

PhaseEdges ==
    {<<"Idle", "Fetching">>, <<"Fetching", "Diffing">>, <<"Diffing", "Writing">>,
     <<"Writing", "Done">>, <<"Writing", "Retrying">>, <<"Retrying", "Fetching">>}
    \cup {<<p, "FatalError">> : p \in {"Idle", "Fetching", "Diffing", "Writing", "Retrying"}}

\* Which event may follow which in the log of one sync() call.
EventFollows ==
    {<<"START", "FETCH_N_LOAD">>,
     <<"FETCH_N_LOAD", "FETCH_N_LOAD_COMPLETED">>,
     <<"FETCH_N_LOAD_COMPLETED", "DIFF">>,
     <<"DIFF", "DIFF_COMPLETED">>,
     <<"DIFF_COMPLETED", "WRITE">>,
     <<"WRITE", "WRITE_ASSETS">>,
     <<"WRITE_ASSETS", "WRITE_ASSETS_COMPLETED">>,
     <<"WRITE_ASSETS", "RETRY">>,
     <<"WRITE_ASSETS_COMPLETED", "WRITE_ALBUMS">>,
     <<"WRITE_ALBUMS", "WRITE_ALBUMS_COMPLETED">>,
     <<"WRITE_ALBUMS", "RETRY">>,
     <<"WRITE_ALBUMS_COMPLETED", "WRITE_COMPLETED">>,
     <<"WRITE_COMPLETED", "DONE">>,
     <<"RETRY", "FETCH_N_LOAD">>}

EventsInOrder ==
    /\ events # <<>> => events[1] = "START"
    /\ \A i \in 1..(Len(events) - 1) : <<events[i], events[i + 1]>> \in EventFollows
    /\ Count(events, "DONE") <= 1

UUIDs(entities) == {entities[i].uuid : i \in 1..Len(entities)}

\* Every asset operation of the attempt has been executed and has taken effect.
AssetPhaseComplete ==
    /\ toDelete = <<>>
    /\ queued = <<>>
    /\ inflight = {}
    /\ \A i \in 1..Len(assetQueue.toBeAdded) :
            assetDir[assetQueue.toBeAdded[i].uuid] = assetQueue.toBeAdded[i].fp
    /\ \A uuid \in UUIDs(assetQueue.toBeDeleted) \ UUIDs(assetQueue.toBeAdded) :
            assetDir[uuid] = None

(***************************************************************************)
(* The retry loop.                                                         *)
(***************************************************************************)
\* C1: with maxRetry = -1 sync() retries forever; in particular it never fails
\* with the max-retries-exceeded error.
C1_RetriesForever == options.maxRetries = -1 => result.kind # "MAX_RETRY"

\* C2: when the write phase fails recoverably k times in a row, k < maxRetry, and
\* then succeeds, sync() succeeds on attempt k + 1: it emits DONE and returns, and
\* max-retries-exceeded is never raised after fewer than maxRetry failures.
C2_SucceedsAfterFailures ==
    /\ result.kind = "MAX_RETRY" => ~(NumRetry < maxRetry)
    /\ pc \in {"fetch", "diff", "write_assets", "write_assets_add", "write_albums"}
            => retryCount = NumRetry + 1 /\ NumRetry < maxRetry
    /\ Count(events, "WRITE_COMPLETED") > 0
            => /\ pc = "done"
               /\ result = Returned
               /\ events[Len(events)] = "DONE"
               /\ retryCount = NumRetry + 1

C2_Witness == pc = "done" /\ result = Returned /\ NumRetry >= 1 /\ NumRetry < maxRetry

\* C3: for maxRetry >= 0 sync() never starts more than maxRetry attempts, and it
\* throws max-retries-exceeded only after exactly maxRetry failed attempts in a row.
C3_AttemptsBounded ==
    options.maxRetries >= 0 =>
        /\ retryCount <= options.maxRetries
        /\ NumAttempts <= options.maxRetries
        /\ result.kind = "MAX_RETRY" =>
                /\ NumRetry = options.maxRetries
                /\ NumAttempts = options.maxRetries
                /\ result.message = ToString(options.maxRetries)

C3_Witness == result.kind = "MAX_RETRY" /\ options.maxRetries >= 1 /\ NumRetry >= 1

\* C4: an error of the write phase is retried exactly when its code is bad-response,
\* bad-request or EAI_AGAIN; any other error ends sync() at once, with no further
\* attempt, as an UNKNOWN_SYNC error that carries the error as its cause.
C4_Classification ==
    /\ lastErr \in RecoverableCodes =>
            /\ events[Len(events)] = "RETRY"
            /\ NumRetry = NumAttempts
            /\ \/ pc \in {"retry_settle", "retry_refresh"} /\ result = Running
               \/ pc = "thrown" /\ result.kind \in {"MAX_RETRY", "ESCAPED"}
    /\ lastErr \notin RecoverableCodes \cup {NoError} =>
            /\ pc = "thrown"
            /\ result.kind = "UNKNOWN_SYNC"
            /\ result.kind # MaxRetryError(retryCount).kind
            /\ result.cause = lastErr
            /\ events[Len(events)] # "RETRY"
            /\ NumAttempts = NumRetry + 1
            /\ retryCount = NumAttempts
    /\ result.kind = "UNKNOWN_SYNC" => lastErr \notin RecoverableCodes \cup {NoError}

C4_Witness ==
    /\ result.kind = "UNKNOWN_SYNC"
    /\ result.cause = "ECONNRESET"
    /\ NumRetry >= 1
    /\ inflight # {}

\* C5: when sync() fails because the retry budget is exhausted, the error it throws
\* carries the recoverable error of the last failed attempt as its cause.
C5_BudgetErrorHasCause ==
    (result.kind = "MAX_RETRY" /\ lastErr # NoError) => result.cause = lastErr

\* C6: a recoverable error thrown by fetch & load or by diff is classified and leads
\* to a retry; it does not leave sync() unclassified.
C6_AllPhasesClassified ==
    ~(/\ result.kind = "ESCAPED"
      /\ result.message \in {"fetchAndLoadState", "diffState"}
      /\ result.cause \in RecoverableCodes)

\* C6, as the code has it: every attempt runs the three phases again, but only an
\* error of the write phase is classified; an error thrown by fetch & load or by
\* diff, recoverable or not, leaves sync() unclassified and is not retried.
C6_OnlyWritePhaseClassified ==
    /\ (result.kind = "ESCAPED" /\ result.message \in {"fetchAndLoadState", "diffState"}) =>
            /\ pc = "thrown"
            /\ lastErr = NoError
            /\ events[Len(events)] \in {"FETCH_N_LOAD", "DIFF"}
            /\ NumAttempts = NumRetry + 1
    /\ lastErr # NoError =>
            \E i \in 1..Len(events) :
                /\ events[i] \in {"WRITE_ASSETS", "WRITE_ALBUMS"}
                /\ \A j \in (i + 1)..Len(events) : events[j] = "RETRY"
    /\ pc \in {"write_assets", "write_assets_add", "write_albums"} =>
            /\ Count(events, "FETCH_N_LOAD_COMPLETED") = retryCount
            /\ Count(events, "DIFF_COMPLETED") = retryCount
            /\ Count(events, "WRITE") = retryCount

C6_Witness ==
    /\ result.kind = "ESCAPED"
    /\ result.message = "fetchAndLoadState"
    /\ result.cause \in RecoverableCodes
    /\ NumRetry >= 1

\* C7: a run follows Idle -> Fetching -> Diffing -> Writing -> Done with the one
\* back-edge Writing -> Retrying -> Fetching; the events of an attempt come in the
\* order FETCH_N_LOAD, DIFF, WRITE; DONE is emitted at most once and only after
\* WRITE_COMPLETED of the same attempt; after Done or a fatal error no phase is
\* entered and no event is emitted.
C7_StateMachine ==
    [][/\ Phase' # Phase => <<Phase, Phase'>> \in PhaseEdges
       /\ Phase \in {"Done", "FatalError"} => Phase' = Phase /\ events' = events
       /\ EventsInOrder'
      ]_vars

C7_Witness == pc = "done" /\ NumRetry >= 1 /\ events[Len(events)] = "DONE"

(***************************************************************************)
(* Ordering of the write phase and the download queue.                     *)
(***************************************************************************)
\* C8: in every attempt no album is removed or added before every asset deletion
\* and every asset download of the attempt is complete, and none at all when the
\* asset phase of the attempt failed.
C8_AssetsBeforeAlbums ==
    [][albumTree' # albumTree =>
            /\ AssetPhaseComplete
            /\ events[Len(events)] = "WRITE_ALBUMS"
      ]_vars

C8_Witness ==
    /\ pc = "write_albums"
    /\ albumOps = <<>>
    /\ albumQueue.toBeAdded # <<>>
    /\ assetQueue.toBeDeleted # <<>>
    /\ Len(assetQueue.toBeAdded) > 1

\* C9: within the asset phase no download starts before every deletion of the
\* attempt is done, and no deletion runs while a download waits or runs; so the
\* old file of a changed asset is never deleted after its new file was written.
C9_DeletesBeforeAdds ==
    [][/\ (\E uuid \in AssetIds : assetDir[uuid] # None /\ assetDir'[uuid] = None)
            => queued = <<>> /\ inflight = {}
       /\ ~(inflight' \subseteq inflight) => toDelete = <<>>
       /\ (queued' # <<>> \/ inflight' # {}) => toDelete' = <<>>
      ]_vars

C9_Witness ==
    \E job \in inflight :
        /\ job.asset.uuid \in UUIDs(assetQueue.toBeDeleted)
        /\ assetDir[job.asset.uuid] = None

\* C10: at every moment the number of asset downloads in flight is at most the
\* configured downloadThreads.
C10_BoundedDownloads == Cardinality(inflight) <= options.downloadThreads

C10_Witness ==
    /\ Cardinality(inflight) = options.downloadThreads
    /\ queued # <<>>

(***************************************************************************)
(* readAlbumTypeFromPath on its own: called for a directory with some      *)
(* entries, which nothing changes while the call runs.  An entry is known  *)
(* by its type (fs.Dirent): a directory, a regular file, a symbolic link   *)
(* or something else (a FIFO).                                             *)
(***************************************************************************)
DirentTypes == {"directory", "file", "link", "fifo"}

\* The directories of at most n entries.
RECURSIVE DirectoriesUpTo(_)
DirectoriesUpTo(n) ==
    IF n = 0 THEN {<<>>}
    ELSE LET fewer == DirectoriesUpTo(n - 1)
         IN  fewer \cup {Append(entries, t) : entries \in fewer, t \in DirentTypes}

\* (await fs.readdir(path, {withFileTypes: true})).some(file => file.isDirectory())
SomeIsDirectory(entries) == \E i \in 1..Len(entries) : entries[i] = "directory"
\* (await fs.readdir(path, {withFileTypes: true})).some(file => file.isFile())
SomeIsFile(entries) == \E i \in 1..Len(entries) : entries[i] = "file"

\* The branches of readAlbumTypeFromPath with the test for files first.
AlbumTypeOfFilesFirst(dirPresent, filePresent) ==
    IF filePresent THEN "ARCHIVED"
    ELSE IF dirPresent THEN "FOLDER"
    ELSE "ALBUM"

\* The branches of readAlbumTypeFromPath.
AlbumTypeOf(dirPresent, filePresent) ==
    IF dirPresent THEN "FOLDER"
    ELSE IF filePresent THEN "ARCHIVED"
    ELSE "ALBUM"

\* readAlbumTypeFromPath for a directory that stays as it is during the call.
ReadAlbumTypeFromPath(entries) == AlbumTypeOf(SomeIsDirectory(entries), SomeIsFile(entries))

ReaderInit ==
    /\ SyncUnused
    /\ DifferUnused
    /\ LibraryUnused
    /\ pathEntries \in DirectoriesUpTo(MaxEntries)
    /\ typePc = "called"
    /\ directoryPresent = FALSE
    /\ albumType = None

\* The first readdir resolves.
ReadDirectories ==
    /\ typePc = "called"
    /\ directoryPresent' = SomeIsDirectory(pathEntries)
    /\ typePc' = "readFiles"
    /\ UNCHANGED <<sync, differ, library, pathEntries, albumType>>

\* The second readdir resolves and the call returns.
ReadFiles ==
    /\ typePc = "readFiles"
    /\ albumType' = AlbumTypeOf(directoryPresent, SomeIsFile(pathEntries))
    /\ typePc' = "returned"
    /\ UNCHANGED <<sync, differ, library, pathEntries, directoryPresent>>

ReaderNext == ReadDirectories \/ ReadFiles

ReaderSpec == ReaderInit /\ [][ReaderNext]_vars

(***************************************************************************)
(* The differ.                                                             *)
(***************************************************************************)
Range(list) == {list[i] : i \in 1..Len(list)}
UniqueUUIDs(list) == \A i, j \in 1..Len(list) : list[i].uuid = list[j].uuid => i = j

\* The local entity of a UUID in a local map, for the UUIDs the map holds.
LocalEntity(localEntities, uuid) == [uuid |-> uuid, fp |-> localEntities[uuid]]
Held(localEntities) == {uuid \in DOMAIN localEntities : localEntities[uuid] # None}

\* The list of kept entities of a returned array: its third element, when it has one.
ToKeep(queues) == IF "toBeKept" \in DOMAIN queues THEN queues.toBeKept ELSE <<>>

\* C11: for a remote list with unique UUIDs, a remote entity is in toAdd exactly when
\* the local map holds no entity of its UUID or holds one that is not equal to it;
\* and a local entity that differs from the remote entity of its UUID is in toDelete
\* (a changed entity is both deleted and added again).
C11_AddedIffAbsentOrChanged ==
    \A c \in 1..Len(differCalls) :
        LET call == differCalls[c]
            local == call.localEntities
        IN  UniqueUUIDs(call.remoteEntities) =>
                /\ \A r \in Range(call.remoteEntities) :
                        r \in Range(call.queues.toBeAdded)
                            <=> (local[r.uuid] = None \/ local[r.uuid] # r.fp)
                /\ \A r \in Range(call.remoteEntities) :
                        (local[r.uuid] # None /\ local[r.uuid] # r.fp)
                            => /\ LocalEntity(local, r.uuid) \in Range(call.queues.toBeDeleted)
                               /\ r \in Range(call.queues.toBeAdded)

C11_Witness ==
    \E c \in 1..Len(differCalls) :
        LET call == differCalls[c]
        IN  /\ UniqueUUIDs(call.remoteEntities)
            /\ Len(call.remoteEntities) = NumAssets
            /\ \E r \in Range(call.queues.toBeAdded) :
                    LocalEntity(call.localEntities, r.uuid) \in Range(call.queues.toBeDeleted)
            /\ \E r \in Range(call.remoteEntities) : r \notin Range(call.queues.toBeAdded)

\* C12: the differ returns toKeep with toAdd and toDelete, and toKeep and toDelete
\* partition the local entities: every local entity is in exactly one of the two, in
\* toKeep exactly when a remote entity of its UUID equals it, and in toDelete when no
\* remote entity has its UUID.
C12_KeepDeletePartition ==
    \A c \in 1..Len(differCalls) :
        LET call == differCalls[c]
            local == call.localEntities
        IN  \A uuid \in Held(local) :
                LET l == LocalEntity(local, uuid)
                    kept == l \in Range(ToKeep(call.queues))
                    deleted == l \in Range(call.queues.toBeDeleted)
                IN  /\ kept # deleted
                    /\ kept <=> \E r \in Range(call.remoteEntities) :
                                    r.uuid = uuid /\ Equal(r, local[uuid])
                    /\ (\A r \in Range(call.remoteEntities) : r.uuid # uuid) => deleted

\* C13: two calls in succession with the same remote list and the same local map
\* object return the same queues.
C13_SameQueuesBothTimes ==
    Len(differCalls) >= 2 => differCalls[2].queues = differCalls[1].queues

(***************************************************************************)
(* The library with its album hierarchy: sync() called on a remote library *)
(* and a local library whose albums have a kind, a label, a parent and     *)
(* members, up to MaxRuns times in a row with the remote unchanged.  No    *)
(* transport error occurs, so every call makes one attempt; the assets of  *)
(* an attempt are written in one step, the albums one operation at a time. *)
(***************************************************************************)
\* The UUID of the root album (the empty UUID).
Root == 0
LibAssetIds == 1..NumLibAssets
LibAlbumIds == 1..NumLibAlbums
Labels == {"n1", "n2"}
RemoteLabels == {"n2"}

\* The maps from some of the ids to records.
PartialMaps(ids, records) == UNION {[present -> records] : present \in SUBSET ids}

\* Does the chain of parents of an album end at the root?
RECURSIVE ReachesRoot(_, _, _)
ReachesRoot(albums, uuid, fuel) ==
    IF uuid = Root THEN TRUE
    ELSE IF fuel = 0 \/ uuid \notin DOMAIN albums THEN FALSE
    ELSE ReachesRoot(albums, albums[uuid].parent, fuel - 1)

\* Every album hangs on the root: no parent is missing, no parents form a cycle.
HierarchyValid(albums) == \A uuid \in DOMAIN albums : ReachesRoot(albums, uuid, NumLibAlbums)

\* The remote libraries: an album is a FOLDER or an ALBUM, has the current label and
\* a parent; an ALBUM has remote assets as members; a parent among the albums is a
\* FOLDER.  The parent of an album may be missing, and parents may form a cycle.
RemoteLibraries ==
    {lib \in [assets : [LibAssetIds -> RemoteFingerprints \cup {None}],
              albums : PartialMaps(LibAlbumIds,
                                   [kind : {"FOLDER", "ALBUM"}, label : RemoteLabels,
                                    parent : {Root} \cup LibAlbumIds,
                                    members : SUBSET LibAssetIds])] :
        \A uuid \in DOMAIN lib.albums :
            LET album == lib.albums[uuid]
            IN  /\ album.parent # uuid
                /\ album.kind = "FOLDER" => album.members = {}
                /\ \A asset \in album.members : lib.assets[asset] # None
                /\ album.parent \in DOMAIN lib.albums
                        => lib.albums[album.parent].kind = "FOLDER"}

ChildrenOf(tree, uuid) == {child \in DOMAIN tree : tree[child].parent = uuid}

\* The local libraries, as sync() and the user leave them: a directory per album, in
\* the directory of its parent, with the links to its assets or, once the user has
\* archived it, regular files; every link leads to a file of the asset pool.
LocalLibraries ==
    {lib \in [assets : [LibAssetIds -> Fingerprints \cup {None}],
              albums : PartialMaps(LibAlbumIds,
                                   [parent : {Root} \cup LibAlbumIds, label : Labels,
                                    links : SUBSET LibAssetIds, files : BOOLEAN])] :
        /\ HierarchyValid(lib.albums)
        /\ \A uuid \in DOMAIN lib.albums :
            LET dir == lib.albums[uuid]
            IN  /\ \A asset \in dir.links : lib.assets[asset] # None
                /\ dir.files => dir.links = {}
                /\ ChildrenOf(lib.albums, uuid) # {} => dir.links = {} /\ ~dir.files}

\* fs.readdir of the directory of an album: per child album its directory and the
\* link to it, the links to assets, the regular files.
RepeatEntry(n, type) == [i \in 1..n |-> type]
DirEntries(tree, uuid) ==
    LET children == Cardinality(ChildrenOf(tree, uuid))
    IN  RepeatEntry(children, "directory")
        \o RepeatEntry(children + Cardinality(tree[uuid].links), "link")
        \o (IF tree[uuid].files THEN <<"file">> ELSE <<>>)

\* loadAlbum: the album itself unless it is the root, and for a FOLDER the albums
\* its links lead to, each with the type read from its directory; the links of an
\* ALBUM are its assets, the content of an ARCHIVED album is ignored.
RECURSIVE LoadAlbum(_, _, _)
LoadAlbum(tree, uuid, type) ==
    (IF uuid = Root THEN {}
     ELSE {[uuid |-> uuid, kind |-> type, label |-> tree[uuid].label,
            parent |-> tree[uuid].parent,
            members |-> IF type = "ALBUM" THEN tree[uuid].links ELSE {}]})
    \cup (IF type = "FOLDER"
          THEN UNION {LoadAlbum(tree, child, ReadAlbumTypeFromPath(DirEntries(tree, child))) :
                        child \in ChildrenOf(tree, uuid)}
          ELSE {})

\* loadAlbums: the albums below the root album, by UUID.
LoadAlbums(tree) ==
    LET albums == LoadAlbum(tree, Root, "FOLDER")
    IN  [uuid \in {album.uuid : album \in albums} |->
            CHOOSE album \in albums : album.uuid = uuid]

\* What Album.equal compares: the kind, the label and the parent of an album.
AlbumFingerprint(album) == album.kind \o "/" \o album.label \o "/" \o ToString(album.parent)

\* A map of albums as the differ takes it: UUID -> fingerprint or None.
AlbumEntities(albums) ==
    [uuid \in LibAlbumIds |->
        IF uuid \in DOMAIN albums THEN AlbumFingerprint(albums[uuid]) ELSE None]

LibNoFetch == [remoteAssets |-> <<>>, remoteAlbums |-> <<>>,
               localAssets |-> [i \in LibAssetIds |-> None],
               localAlbums |-> [i \in LibAlbumIds |-> None],
               loaded |-> <<>>]
LibNoQueues == [assets |-> EmptyQueue, albums |-> EmptyQueue]

LibraryInit ==
    /\ SyncUnused
    /\ DifferUnused
    /\ ReaderUnused
    /\ libRemote \in RemoteLibraries
    /\ libDisk \in LocalLibraries
    /\ libPc = "idle"
    /\ libRunNo = 0
    /\ libFetched = LibNoFetch
    /\ libQueues = LibNoQueues
    /\ libOps = <<>>
    /\ libResult = Running
    /\ libMutations = 0

\* sync() is called, the first time or again after it has returned; it starts its
\* one attempt.
LibSyncStart ==
    /\ libPc \in {"idle", "done"}
    /\ libRunNo < MaxRuns
    /\ libRunNo' = libRunNo + 1
    /\ libPc' = "fetch"
    /\ libResult' = Running
    /\ libMutations' = 0
    /\ libFetched' = LibNoFetch
    /\ libQueues' = LibNoQueues
    /\ UNCHANGED <<sync, differ, reader, libRemote, libDisk, libOps>>

\* fetchAndLoadState: the remote lists, and the local library as loaded from disk.
LibFetchAndLoadState ==
    /\ libPc = "fetch"
    /\ LET loaded == LoadAlbums(libDisk.albums)
       IN  libFetched' = [remoteAssets |-> Values(libRemote.assets, NumLibAssets),
                          remoteAlbums |-> Values(AlbumEntities(libRemote.albums), NumLibAlbums),
                          localAssets |-> libDisk.assets,
                          localAlbums |-> AlbumEntities(loaded),
                          loaded |-> loaded]
    /\ libPc' = "diff"
    /\ UNCHANGED <<sync, differ, reader, libRemote, libDisk, libRunNo, libQueues, libOps,
                   libResult, libMutations>>

\* The parent of every album of a map of albums.
ParentsOf(albums) == [uuid \in DOMAIN albums |-> albums[uuid].parent]

\* How many albums of a set lie above an album, following the parents within the set.
RECURSIVE DepthWithin(_, _, _, _)
DepthWithin(uuid, parentOf, among, fuel) ==
    IF fuel = 0 \/ parentOf[uuid] \notin among THEN 0
    ELSE 1 + DepthWithin(parentOf[uuid], parentOf, among, fuel - 1)

\* Is an album of the set above this album?
RECURSIVE HasAncestorIn(_, _, _, _)
HasAncestorIn(uuid, parentOf, among, fuel) ==
    /\ fuel > 0
    /\ uuid \in DOMAIN parentOf
    /\ \/ parentOf[uuid] \in among
       \/ HasAncestorIn(parentOf[uuid], parentOf, among, fuel - 1)

\* The UUIDs of a set in the order of their keys, smallest first, equal keys by UUID.
RECURSIVE SortedBy(_, _)
SortedBy(uuids, key) ==
    IF uuids = {} THEN <<>>
    ELSE LET first == CHOOSE u \in uuids :
                        \A v \in uuids : key[u] < key[v] \/ (key[u] = key[v] /\ u <= v)
         IN  <<first>> \o SortedBy(uuids \ {first}, key)

EntityOf(entities, uuid) == CHOOSE e \in entities : e.uuid = uuid
EntitiesOf(order, entities) == [i \in 1..Len(order) |-> EntityOf(entities, order[i])]

\* resolveHierarchicalDependencies(albumQueue, localAlbums), with the parent each
\* album object carries: kept albums below a deleted album are lifted into both
\* lists, the additions are put parents first and the deletions children first; a
\* cycle among the additions, or an addition whose parent is neither the root nor
\* added nor kept, is an invariant violation.  The kept albums are those the queue
\* lists.
ResolveHierarchicalDependenciesOf(queue, localAlbums, remoteParent, localParent) ==
    LET kept == Range(ToKeep(queue))
        lifted == {e \in kept :
                    HasAncestorIn(e.uuid, localParent, UUIDs(queue.toBeDeleted), NumLibAlbums)}
        added == Range(queue.toBeAdded) \cup lifted
        deleted == Range(queue.toBeDeleted) \cup lifted
        adds == {e.uuid : e \in added}
        deletes == {e.uuid : e \in deleted}
        addDepth == [u \in adds |-> DepthWithin(u, remoteParent, adds, Cardinality(adds))]
        deleteDepth == [u \in deletes |->
                            0 - DepthWithin(u, localParent, deletes, Cardinality(deletes))]
    IN  [cycle |-> \E u \in adds : addDepth[u] = Cardinality(adds),
         dangling |-> \E u \in adds :
                        remoteParent[u] \notin {Root} \cup adds \cup {e.uuid : e \in kept},
         queue |-> [toBeDeleted |-> EntitiesOf(SortedBy(deletes, deleteDepth), deleted),
                    toBeAdded |-> EntitiesOf(SortedBy(adds, addDepth), added)]]

\* diffState: both differs on what was fetched and loaded, then the resolver on the
\* album queue and the local album map as the differ has left it.
LibDiff ==
    LET assets == GetProcessingQueues(libFetched.remoteAssets, libFetched.localAssets,
                                      NumLibAssets)
        albums == GetProcessingQueues(libFetched.remoteAlbums, libFetched.localAlbums,
                                      NumLibAlbums)
    IN  [assetQueue |-> ReturnedQueues(assets),
         localAssets |-> assets.localEntities,
         localAlbums |-> albums.localEntities,
         resolved |-> ResolveHierarchicalDependenciesOf(
                            ReturnedQueues(albums), albums.localEntities,
                            ParentsOf(libRemote.albums), ParentsOf(libFetched.loaded))]

\* diffState returns both queues; writeState starts.
LibDiffState ==
    /\ libPc = "diff"
    /\ ~LibDiff.resolved.cycle /\ ~LibDiff.resolved.dangling
    /\ libQueues' = [assets |-> LibDiff.assetQueue, albums |-> LibDiff.resolved.queue]
    /\ libFetched' = [libFetched EXCEPT !.localAssets = LibDiff.localAssets,
                                        !.localAlbums = LibDiff.localAlbums]
    /\ libPc' = "write_assets"
    /\ UNCHANGED <<sync, differ, reader, libRemote, libDisk, libRunNo, libOps, libResult,
                   libMutations>>

\* The resolver throws an invariant violation: diffState is called outside the try
\* block of sync(), the error leaves sync() as it is.
LibDiffStateThrows ==
    /\ libPc = "diff"
    /\ LibDiff.resolved.cycle \/ LibDiff.resolved.dangling
    /\ libFetched' = [libFetched EXCEPT !.localAssets = LibDiff.localAssets,
                                        !.localAlbums = LibDiff.localAlbums]
    /\ libResult' = Escaped("INVARIANT_VIOLATION", "diffState")
    /\ libPc' = "thrown"
    /\ UNCHANGED <<sync, differ, reader, libRemote, libDisk, libRunNo, libQueues, libOps,
                   libMutations>>

\* writeAssets: every asset to delete is deleted, then every asset to add is
\* downloaded and written; writeAlbums starts.
LibWriteAssets ==
    /\ libPc = "write_assets"
    /\ LET queue == libQueues.assets
       IN  /\ libDisk' = [libDisk EXCEPT !.assets =
                    [uuid \in LibAssetIds |->
                        IF uuid \in UUIDs(queue.toBeAdded)
                        THEN EntityOf(Range(queue.toBeAdded), uuid).fp
                        ELSE IF uuid \in UUIDs(queue.toBeDeleted) THEN None
                        ELSE libDisk.assets[uuid]]]
           /\ libMutations' = libMutations + Len(queue.toBeDeleted) + Len(queue.toBeAdded)
    /\ libOps' = AlbumOperations(libQueues.albums)
    /\ libPc' = "write_albums"
    /\ UNCHANGED <<sync, differ, reader, libRemote, libRunNo, libFetched, libQueues, libResult>>

\* What stands in the way of an album operation, or None: removeAlbum refuses a
\* directory with subdirectories or regular files, addAlbum needs the directory of
\* the parent and makes a directory that is not there yet.
AlbumOpError(op, tree) ==
    IF op.op = "remove"
    THEN IF op.album.uuid \notin DOMAIN tree THEN "ENOENT"
         ELSE IF ChildrenOf(tree, op.album.uuid) # {} \/ tree[op.album.uuid].files
              THEN "ENOTEMPTY"
              ELSE None
    ELSE LET parent == libRemote.albums[op.album.uuid].parent
         IN  IF parent # Root /\ parent \notin DOMAIN tree THEN "ENOENT"
             ELSE IF op.album.uuid \in DOMAIN tree THEN "EEXIST"
             ELSE None

\* removeAlbum: the links and the directory go.  addAlbum: the directory is made in
\* the directory of the parent and, for an ALBUM, a link per member.
AlbumOpApplied(op, tree) ==
    IF op.op = "remove"
    THEN [uuid \in DOMAIN tree \ {op.album.uuid} |-> tree[uuid]]
    ELSE LET album == libRemote.albums[op.album.uuid]
         IN  (op.album.uuid :> [parent |-> album.parent, label |-> album.label,
                                links |-> IF album.kind = "ALBUM" THEN album.members ELSE {},
                                files |-> FALSE]) @@ tree

\* The next album operation is executed.
LibAlbumOp ==
    /\ libPc = "write_albums"
    /\ libOps # <<>>
    /\ AlbumOpError(Head(libOps), libDisk.albums) = None
    /\ libDisk' = [libDisk EXCEPT !.albums = AlbumOpApplied(Head(libOps), libDisk.albums)]
    /\ libOps' = Tail(libOps)
    /\ libMutations' = libMutations + 1
    /\ UNCHANGED <<sync, differ, reader, libRemote, libPc, libRunNo, libFetched, libQueues,
                   libResult>>

\* The next album operation throws: writeState throws into the try block of sync(),
\* and checkFatalError throws the error on.
LibAlbumOpThrows ==
    /\ libPc = "write_albums"
    /\ libOps # <<>>
    /\ AlbumOpError(Head(libOps), libDisk.albums) # None
    /\ CheckFatalError(AlbumOpError(Head(libOps), libDisk.albums))
    /\ libResult' = UnknownSyncError(AlbumOpError(Head(libOps), libDisk.albums))
    /\ libPc' = "thrown"
    /\ UNCHANGED <<sync, differ, reader, libRemote, libDisk, libRunNo, libFetched, libQueues,
                   libOps, libMutations>>

\* writeState returns, sync() emits DONE and returns.
LibWriteCompleted ==
    /\ libPc = "write_albums"
    /\ libOps = <<>>
    /\ libResult' = Returned
    /\ libPc' = "done"
    /\ UNCHANGED <<sync, differ, reader, libRemote, libDisk, libRunNo, libFetched, libQueues,
                   libOps, libMutations>>

LibraryNext ==
    \/ LibSyncStart
    \/ LibFetchAndLoadState
    \/ LibDiffState
    \/ LibDiffStateThrows
    \/ LibWriteAssets
    \/ LibAlbumOp
    \/ LibAlbumOpThrows
    \/ LibWriteCompleted

LibrarySpec == LibraryInit /\ [][LibraryNext]_vars

(***************************************************************************)
(* The library after sync().                                               *)
(***************************************************************************)
\* C15: after a successful sync(), also one that succeeded after retries, the asset
\* pool equals the remote asset list sync() returns: every asset on disk has the
\* fingerprint (size, modification time) of the remote asset of its UUID, no asset
\* on disk has a UUID the list lacks, and every asset of the list is on disk.
C15_PoolEqualsRemote ==
    pc = "done" =>
        /\ \A uuid \in AssetIds :
                assetDir[uuid] # None =>
                    \E r \in Range(fetched.remoteAssets) :
                        r.uuid = uuid /\ r.fp = assetDir[uuid]
        /\ \A r \in Range(fetched.remoteAssets) : assetDir[r.uuid] = r.fp

C15_Witness ==
    /\ pc = "done"
    /\ NumRetry >= 1
    /\ assetQueue.toBeAdded # <<>>
    /\ \E uuid \in AssetIds : assetDir[uuid] # None /\ uuid \notin UUIDs(assetQueue.toBeAdded)

(***************************************************************************)
(* Loading the local library.                                              *)
(***************************************************************************)
NumberOf(entries, type) == Cardinality({i \in 1..Len(entries) : entries[i] = type})

\* C19: a directory is loaded as FOLDER when it has at least one subdirectory, also
\* with regular files beside it; as ARCHIVED when it has no subdirectory and at
\* least one regular file; as ALBUM otherwise, empty or with symbolic links only.
\* Every directory gets exactly one of the three types.
C19_TypeFromEntries ==
    typePc = "returned" =>
        /\ albumType \in {"FOLDER", "ARCHIVED", "ALBUM"}
        /\ albumType = "FOLDER" <=> NumberOf(pathEntries, "directory") >= 1
        /\ albumType = "ARCHIVED" <=> /\ NumberOf(pathEntries, "directory") = 0
                                      /\ NumberOf(pathEntries, "file") >= 1
        /\ albumType = "ALBUM" <=> /\ NumberOf(pathEntries, "directory") = 0
                                   /\ NumberOf(pathEntries, "file") = 0
        /\ (pathEntries = <<>> \/ \A i \in 1..Len(pathEntries) : pathEntries[i] = "link")
                => albumType = "ALBUM"

C19_Witness ==
    /\ typePc = "returned"
    /\ albumType = "FOLDER"
    /\ NumberOf(pathEntries, "file") >= 1
    /\ NumberOf(pathEntries, "link") >= 1

\* C14: when sync() is called again right after a call that succeeded, with the
\* remote unchanged, the second call finds nothing to add and nothing to delete,
\* assets or albums, and changes nothing in the filesystem.
C14_SecondRunChangesNothing ==
    libRunNo >= 2 =>
        /\ libMutations = 0
        /\ libQueues.assets = EmptyQueue
        /\ libQueues.albums = EmptyQueue

\* The links of the album tree that lead to no file of the asset pool.
OrphanLinks ==
    {<<uuid, asset>> \in LibAlbumIds \X LibAssetIds :
        /\ uuid \in DOMAIN libDisk.albums
        /\ asset \in libDisk.albums[uuid].links
        /\ libDisk.assets[asset] = None}

\* C16: after a successful sync() every symbolic link of the album tree leads to a
\* file of the asset pool, also when an asset of a kept album was deleted or
\* replaced in the asset phase.
C16_NoOrphanLinks == libPc = "done" => OrphanLinks = {}

C20_ArchivedNotDiffed ==
    \A uuid \in LibAlbumIds :
        (/\ libFetched.loaded # <<>>
         /\ uuid \in DOMAIN libFetched.loaded
         /\ libFetched.loaded[uuid].kind = "ARCHIVED"
         /\ uuid \in DOMAIN libRemote.albums
         /\ libRemote.albums[uuid].kind = "FOLDER")
            => /\ uuid \notin UUIDs(libQueues.albums.toBeAdded)
               /\ uuid \notin UUIDs(libQueues.albums.toBeDeleted)

(***************************************************************************)
(* What a call of the differ does to its arguments.                        *)
(***************************************************************************)
\* C22: a call of the differ leaves the local map it was given as it was: after the
\* call the map still holds every entity it held before, the kept ones too.
C22_LocalMapUnchanged ==
    differCalls # <<>> => differLocal = differCalls[Len(differCalls)].localEntities

(***************************************************************************)
(* The download queue between two attempts and at the end of sync().       *)
(***************************************************************************)
\* The download queue holds no waiting job and no running job.
PoolIdle == queued = <<>> /\ inflight = {}

\* The assets of this attempt's toBeAdded with their file in the pool.
WrittenOf(queue) ==
    {i \in 1..Len(queue.toBeAdded) :
        assetDir[queue.toBeAdded[i].uuid] = queue.toBeAdded[i].fp}

\* C21: after a recoverable error the waiting jobs are dropped first, the running
\* jobs are waited for, the session is refreshed only when nothing waits and nothing
\* runs, and the next fetch starts only after the refresh; so when the fetch of an
\* attempt starts the download queue is idle.  A running job leaves the queue only
\* by ending on its own, one at a time.
C21_RetryOrder ==
    [][/\ pc' = "retry_settle" => queued' = <<>>
       /\ pc' \in {"retry_refresh", "fetch"} => PoolIdle'
       /\ (pc = "retry_settle" /\ pc' # "retry_settle") => pc' = "retry_refresh"
       /\ (pc' = "fetch" /\ pc # "fetch") => pc \in {"idle", "retry_refresh"}
       /\ pc = "retry_settle" =>
             /\ inflight' \subseteq inflight
             /\ Cardinality(inflight \ inflight') <= 1]_vars

\* A second attempt starts its fetch after an attempt with two downloads, of which
\* one was written and the other was dropped.
C21_Witness ==
    /\ pc = "fetch"
    /\ NumRetry >= 1
    /\ WrittenOf(assetQueue) # {}
    /\ WrittenOf(assetQueue) # 1..Len(assetQueue.toBeAdded)

\* C23: when sync() has ended, by returning or by throwing, the download queue holds
\* no waiting job and no running job, so nothing writes to the asset pool afterwards.
C23_PoolIdleAtEnd == pc \in {"done", "thrown"} => PoolIdle

====
